---- MODULE Spec2Model ----
(***************************************************************************)
(* QoS resource resolution of the CRI server (package server):             *)
(*   - generateSandboxQoSResourceSpecOpts / generateContainerQoSResource-  *)
(*     SpecOpts, the request scan and the RDT / block-I/O handling,        *)
(*   - getContainerRdtClass / getContainerBlockioClass, the resolvers with *)
(*     their annotation fallback,                                          *)
(*   - generateCniQoSResourceOpts, GetPodQoSResourcesInfo and              *)
(*     updateCniQoSResources over the package variable cniQoSResource.     *)
(*   - the negotiation of a sandbox's network with the policy agent, whose *)
(*     class check is the lookup of generateCniQoSResourceOpts.            *)
(*                                                                         *)
(* Strings are the Go strings.  An error is a record with a "kind" field;  *)
(* the nil error is NoErr.  A Go map is a function; the nil map and the    *)
(* empty map read alike (len, index, range) and are both EmptyMap.         *)
(***************************************************************************)
EXTENDS Integers, Sequences, FiniteSets, TLC

VARIABLES
    op,             \* the call in progress: "container", "sandbox", "cni", ...
    config,         \* GetQosResources() of the config passed to the call
    annotations,    \* what the config's annotations say per backend
    flags,          \* c.config.ContainerdConfig.Ignore{Rdt,BlockIO}NotEnabledErrors
    backend,        \* rdt.IsEnabled() / blockio.IsEnabled()
    cniQoSResource, \* var cniQoSResource map[string]CniQoSClass
    netplugin,      \* the plugin passed to the last updateCniQoSResources
    ret,            \* the value the call returned, Pending before it returns
    podInfoLen,        \* GetPodQoSResourcesInfo in progress: the map its len() test read
    lastRebuilt,    \* history: the map built by the last rebuild that succeeded
    seen,           \* history: the values cniQoSResource had during the read in progress
    draft,          \* the network configuration drafted for the sandbox
    reply,          \* what the policy agent answered to the draft
    policy,         \* what to do when the call to the agent fails: "abort" or "proceed"
    pc,             \* a container call taken step by step: the step to come
    observed,       \* IsEnabled() as the resolvers of that call read it
    specOptsNow     \* the specOpts of that call so far

negotiationVars == <<draft, reply, policy>>
stepVars == <<pc, observed, specOptsNow>>

vars == <<op, config, annotations, flags, backend, cniQoSResource, netplugin, ret,
          podInfoLen, lastRebuilt, seen, negotiationVars, stepVars>>

(***************************************************************************)
(* Bounds of the model.                                                    *)
(***************************************************************************)
MaxReqs == 2        \* longest QoS request sequence of a config
MaxNetworks == 2    \* most networks a plugin configuration lists

(***************************************************************************)
(* Names and values.                                                       *)
(***************************************************************************)
QoSResourceRdt == "rdt"
QoSResourceBlockio == "blockio"
QoSResourceNet == "net"

EmptyMap == [x \in {} |-> x]

NoErr == [kind |-> "nil"]
Pending == [kind |-> "pending"]

\* fmt.Errorf("unknown QoS resource type %q", name) and its pod-level twin
ErrUnknownType(name) == [kind |-> "UnknownResourceType", name |-> name]
\* fmt.Errorf("unknown %s class %q", name, class)
ErrUnknownClass(name, class) == [kind |-> "UnknownClass", name |-> name, class |-> class]
\* fmt.Errorf("empty class name not allowed for QoS resource type %q", name)
ErrEmptyClass(name) == [kind |-> "EmptyClassNotAllowed", name |-> name]
\* fmt.Errorf("RDT disabled, ...") / fmt.Errorf("blockio disabled, ...")
ErrDisabled(name, class) == [kind |-> "DisabledBackend", name |-> name, class |-> class]
\* fmt.Errorf("invalid RDT class %q: not specified in configuration", cls)
ErrInvalidClass(name, class) == [kind |-> "UnknownClass", name |-> name, class |-> class]
\* the error ContainerClassFromAnnotations returns for annotations it rejects
ErrAnnotation(name) == [kind |-> "BadAnnotation", name |-> name]
\* fmt.Errorf("failed to set RDT class: %w", err)
ErrFailedToSet(name, err) == [kind |-> "FailedToSetClass", name |-> name, cause |-> err]

(***************************************************************************)
(* init(): the placeholder catalogs, dummuGen applied to the Info lists.   *)
(***************************************************************************)
\* createClassInfos(names...): Capacity is the index of the name
createClassInfos(names) ==
    [i \in 1..Len(names) |-> [Name |-> names[i], Capacity |-> i - 1]]

dummyPodQoSResourcesInfo ==
    << [Name |-> "podres-1", Mutable |-> FALSE,
        Classes |-> createClassInfos(<<"qos-a", "qos-b", "qos-c", "qos-d">>)],
       [Name |-> "podres-2", Mutable |-> FALSE,
        Classes |-> createClassInfos(<<"cls-1", "cls-2", "cls-3", "cls-4", "cls-5">>)] >>

dummyContainerQoSResourcesInfo ==
    << [Name |-> "dummy-1", Mutable |-> FALSE,
        Classes |-> createClassInfos(<<"class-a", "class-b", "class-c", "class-d">>)],
       [Name |-> "dummy-2", Mutable |-> FALSE,
        Classes |-> createClassInfos(<<"platinum", "gold", "silver", "bronze">>)] >>

\* dummuGen: resource type name -> set of its class names
dummuGen(in) ==
    [n \in {in[i].Name : i \in 1..Len(in)} |->
        LET info == in[CHOOSE i \in 1..Len(in) :
                        /\ in[i].Name = n
                        /\ \A j \in (i + 1)..Len(in) : in[j].Name # n]
        IN  {info.Classes[k].Name : k \in 1..Len(info.Classes)}]

dummyPodQoSResources == dummuGen(dummyPodQoSResourcesInfo)
dummyContainerQoSResources == dummuGen(dummyContainerQoSResourcesInfo)

(***************************************************************************)
(* The enforcement back-ends: the class sets rdt.ClassExists and           *)
(* blockio.ClassExists answer from.                                        *)
(***************************************************************************)
RdtClasses == {"gold", "silver"}
BlockioClasses == {"gold", "bronze"}

\* rdt.ContainerClassFromAnnotations / blockio.ContainerClassFromAnnotations:
\* the class the annotations name, "" when no annotation is present, an
\* error when the annotation is rejected.
AnnotationAbsent == "<absent>"
AnnotationInvalid == "<invalid>"
ContainerClassFromAnnotations(name, ann) ==
    IF ann = AnnotationAbsent THEN [cls |-> "", err |-> NoErr]
    ELSE IF ann = AnnotationInvalid THEN [cls |-> "", err |-> ErrAnnotation(name)]
    ELSE [cls |-> ann, err |-> NoErr]

\* blockio.ClassNameToLinuxOCI
ClassNameToLinuxOCI(cls) ==
    IF cls \in BlockioClasses
        THEN [oci |-> [class |-> cls], err |-> NoErr]
        ELSE [oci |-> [nil |-> TRUE], err |-> [kind |-> "NoSuchBlockioClass", class |-> cls]]

\* oci.WithRdt(cls, "", "") and oci.WithBlockIO(linuxBlockIO)
WithRdt(cls) == [opt |-> "WithRdt", class |-> cls]
WithBlockIO(linuxBlockIO) == [opt |-> "WithBlockIO", class |-> linuxBlockIO.class]

\* the container request check that looks up the type of a generic
\* request and not its class
ContainerRequestCheck_TypeOnly(r) ==
    IF r.Name \in {QoSResourceRdt, QoSResourceBlockio}
        THEN IF r.Class = "" THEN ErrEmptyClass(r.Name) ELSE NoErr
    ELSE IF r.Name \notin DOMAIN dummyContainerQoSResources
        THEN ErrUnknownType(r.Name)
    ELSE IF r.Class = "" THEN ErrEmptyClass(r.Name)
    ELSE NoErr

(***************************************************************************)
(* The request scan of generateContainerQoSResourceSpecOpts: the error of  *)
(* one request r, NoErr when the loop goes on to the next request.         *)
(***************************************************************************)
ContainerRequestCheck(r) ==
    IF r.Name \in {QoSResourceRdt, QoSResourceBlockio}
        THEN IF r.Class = "" THEN ErrEmptyClass(r.Name) ELSE NoErr
    ELSE IF r.Name \notin DOMAIN dummyContainerQoSResources
        THEN ErrUnknownType(r.Name)
    ELSE IF r.Class \notin dummyContainerQoSResources[r.Name]
        THEN ErrUnknownClass(r.Name, r.Class)
    ELSE IF r.Class = "" THEN ErrEmptyClass(r.Name)
    ELSE NoErr

\* the request scan of generateSandboxQoSResourceSpecOpts
SandboxRequestCheck(r) ==
    IF r.Name = QoSResourceNet
        THEN IF r.Class = "" THEN ErrEmptyClass(r.Name) ELSE NoErr
    ELSE IF r.Name \notin DOMAIN dummyPodQoSResources
        THEN ErrUnknownType(r.Name)
    ELSE IF r.Class \notin dummyPodQoSResources[r.Name]
        THEN ErrUnknownClass(r.Name, r.Class)
    ELSE IF r.Class = "" THEN ErrEmptyClass(r.Name)
    ELSE NoErr

\* The same scans where the package has no "net" case (pkg/cri/server:
\* its container scan is the one above) and where it has no placeholder
\* catalogs either (the base variant).
SandboxRequestCheckServer(r) ==
    IF r.Name \notin DOMAIN dummyPodQoSResources
        THEN ErrUnknownType(r.Name)
    ELSE IF r.Class \notin dummyPodQoSResources[r.Name]
        THEN ErrUnknownClass(r.Name, r.Class)
    ELSE IF r.Class = "" THEN ErrEmptyClass(r.Name)
    ELSE NoErr

SandboxRequestCheckBase(r) == ErrUnknownType(r.Name)

ContainerRequestCheckBase(r) ==
    IF r.Name \in {QoSResourceRdt, QoSResourceBlockio}
        THEN IF r.Class = "" THEN ErrEmptyClass(r.Name) ELSE NoErr
    ELSE ErrUnknownType(r.Name)

\* the request check of the variant a call runs
RequestCheck(variant, r) ==
    CASE variant = "container" -> ContainerRequestCheck(r)
      [] variant = "container-base" -> ContainerRequestCheckBase(r)
      [] variant = "sandbox" -> SandboxRequestCheck(r)
      [] variant = "sandbox-server" -> SandboxRequestCheckServer(r)
      [] variant = "sandbox-base" -> SandboxRequestCheckBase(r)

\* for _, r := range config.GetQosResources(): the first error, from request i on
RECURSIVE Scan(_, _, _)
Scan(variant, reqs, i) ==
    IF i > Len(reqs) THEN NoErr
    ELSE IF RequestCheck(variant, reqs[i]) # NoErr THEN RequestCheck(variant, reqs[i])
    ELSE Scan(variant, reqs, i + 1)


(***************************************************************************)
(* The resolvers.                                                          *)
(***************************************************************************)
\* the loop of the resolvers leaving at the first request naming name
ClassFromConfig_BreakAtFirst(reqs, name, i, acc) ==
    LET matches == {k \in i..Len(reqs) : reqs[k].Name = name}
    IN  IF matches = {} THEN acc
        ELSE [found |-> TRUE,
              cls |-> reqs[CHOOSE k \in matches : \A l \in matches : k <= l].Class]

\* the loop of both resolvers: found, and cls of the last request naming name
RECURSIVE ClassFromConfig(_, _, _, _)
ClassFromConfig(reqs, name, i, acc) ==
    IF i > Len(reqs) THEN acc
    ELSE ClassFromConfig(reqs, name, i + 1,
            IF reqs[i].Name = name
                THEN [found |-> TRUE, cls |-> reqs[i].Class]
                ELSE acc)

\* ResolveClass consulting the annotations first and the structured
\* requests only when the annotations name no class
ResolveClass_AnnotationsFirst(name, reqs, ann, isEnabled, classes) ==
    LET c == ClassFromConfig(reqs, name, 1, [found |-> FALSE, cls |-> ""])
        a == ContainerClassFromAnnotations(name, ann)
    IN  IF a.err # NoErr THEN [cls |-> a.cls, err |-> a.err]
        ELSE LET cls == IF a.cls # "" THEN a.cls ELSE c.cls
             IN  IF cls = "" THEN [cls |-> cls, err |-> NoErr]
                 ELSE IF ~isEnabled THEN [cls |-> cls, err |-> ErrDisabled(name, cls)]
                 ELSE IF cls \notin classes THEN [cls |-> cls, err |-> ErrInvalidClass(name, cls)]
                 ELSE [cls |-> cls, err |-> NoErr]

\* the shape shared by getContainerRdtClass and getContainerBlockioClass
ResolveClass(name, reqs, ann, isEnabled, classes) ==
    LET c == ClassFromConfig(reqs, name, 1, [found |-> FALSE, cls |-> ""])
        a == ContainerClassFromAnnotations(name, ann)
    IN  IF ~c.found /\ a.err # NoErr THEN [cls |-> a.cls, err |-> a.err]
        ELSE LET cls == IF c.found THEN c.cls ELSE a.cls
             IN  IF cls = "" THEN [cls |-> cls, err |-> NoErr]
                 ELSE IF ~isEnabled THEN [cls |-> cls, err |-> ErrDisabled(name, cls)]
                 ELSE IF cls \notin classes THEN [cls |-> cls, err |-> ErrInvalidClass(name, cls)]
                 ELSE [cls |-> cls, err |-> NoErr]

getContainerRdtClass(reqs, ann, isEnabled) ==
    ResolveClass(QoSResourceRdt, reqs, ann, isEnabled, RdtClasses)

getContainerBlockioClass(reqs, ann, isEnabled) ==
    ResolveClass(QoSResourceBlockio, reqs, ann, isEnabled, BlockioClasses)

(***************************************************************************)
(* The generators.  A result is [opts, err]; opts is <<>> for Go's nil.    *)
(***************************************************************************)
Fail(err) == [opts |-> <<>>, err |-> err]

\* "Handle RDT" that passes over a resolver error whenever the ignore flag
\* is set, without asking whether RDT is enabled
HandleRdt_IgnoreOnFlagAlone(specOpts, reqs, ann, ignore, resolverEnabled, generatorEnabled) ==
    LET r == getContainerRdtClass(reqs, ann, resolverEnabled)
    IN  IF r.err # NoErr
            THEN IF ignore
                    THEN [opts |-> specOpts, err |-> NoErr]
                    ELSE Fail(ErrFailedToSet(QoSResourceRdt, r.err))
        ELSE IF r.cls # "" THEN [opts |-> Append(specOpts, WithRdt(r.cls)), err |-> NoErr]
        ELSE [opts |-> specOpts, err |-> NoErr]

\* "Handle RDT" that fails on every resolver error, whatever the ignore flag
HandleRdt_NeverIgnore(specOpts, reqs, ann, ignore, resolverEnabled, generatorEnabled) ==
    LET r == getContainerRdtClass(reqs, ann, resolverEnabled)
    IN  IF r.err # NoErr THEN Fail(ErrFailedToSet(QoSResourceRdt, r.err))
        ELSE IF r.cls # "" THEN [opts |-> Append(specOpts, WithRdt(r.cls)), err |-> NoErr]
        ELSE [opts |-> specOpts, err |-> NoErr]

\* "Handle RDT": specOpts after the block, or the error it returns.
\* resolverEnabled is rdt.IsEnabled() as getContainerRdtClass reads it,
\* generatorEnabled as the generator reads it on the error path.
HandleRdt(specOpts, reqs, ann, ignore, resolverEnabled, generatorEnabled) ==
    LET r == getContainerRdtClass(reqs, ann, resolverEnabled)
    IN  IF r.err # NoErr
            THEN IF ~generatorEnabled /\ ignore
                    THEN [opts |-> specOpts, err |-> NoErr]
                    ELSE Fail(ErrFailedToSet(QoSResourceRdt, r.err))
        ELSE IF r.cls # "" THEN [opts |-> Append(specOpts, WithRdt(r.cls)), err |-> NoErr]
        ELSE [opts |-> specOpts, err |-> NoErr]

\* "Handle Block IO" that resolves the class and leaves specOpts as it was
HandleBlockIO_NoAppend(specOpts, reqs, ann, ignore, resolverEnabled, generatorEnabled) ==
    LET r == getContainerBlockioClass(reqs, ann, resolverEnabled)
    IN  IF r.err # NoErr
            THEN IF ~generatorEnabled /\ ignore
                    THEN [opts |-> specOpts, err |-> NoErr]
                    ELSE Fail(ErrFailedToSet(QoSResourceBlockio, r.err))
        ELSE [opts |-> specOpts, err |-> NoErr]

\* "Handle Block IO"
HandleBlockIO(specOpts, reqs, ann, ignore, resolverEnabled, generatorEnabled) ==
    LET r == getContainerBlockioClass(reqs, ann, resolverEnabled)
    IN  IF r.err # NoErr
            THEN IF ~generatorEnabled /\ ignore
                    THEN [opts |-> specOpts, err |-> NoErr]
                    ELSE Fail(ErrFailedToSet(QoSResourceBlockio, r.err))
        ELSE IF r.cls # ""
            THEN LET l == ClassNameToLinuxOCI(r.cls)
                 IN  IF l.err = NoErr
                        THEN [opts |-> Append(specOpts, WithBlockIO(l.oci)), err |-> NoErr]
                        ELSE Fail(l.err)
        ELSE [opts |-> specOpts, err |-> NoErr]

\* the handling that follows the scan, with block-I/O handled before RDT
HandleBackends_BlockIOFirst(reqs, ann, fl, be) ==
    LET bio == HandleBlockIO(<<>>, reqs, ann.blockio,
                             fl.IgnoreBlockIONotEnabledErrors,
                             be.blockio, be.blockio)
    IN  IF bio.err # NoErr THEN bio
        ELSE HandleRdt(bio.opts, reqs, ann.rdt, fl.IgnoreRdtNotEnabledErrors,
                       be.rdt, be.rdt)

\* the RDT and block-I/O handling that follows the scan
HandleBackends(reqs, ann, fl, be) ==
    LET rdt == HandleRdt(<<>>, reqs, ann.rdt, fl.IgnoreRdtNotEnabledErrors,
                         be.rdt, be.rdt)
    IN  IF rdt.err # NoErr THEN rdt
        ELSE HandleBlockIO(rdt.opts, reqs, ann.blockio,
                           fl.IgnoreBlockIONotEnabledErrors,
                           be.blockio, be.blockio)

generateContainerQoSResourceSpecOpts(reqs, ann, fl, be) ==
    LET scan == Scan("container", reqs, 1)
    IN  IF scan # NoErr THEN Fail(scan) ELSE HandleBackends(reqs, ann, fl, be)

generateContainerQoSResourceSpecOptsBase(reqs, ann, fl, be) ==
    LET scan == Scan("container-base", reqs, 1)
    IN  IF scan # NoErr THEN Fail(scan) ELSE HandleBackends(reqs, ann, fl, be)

generateSandboxQoSResourceSpecOpts(reqs) ==
    LET scan == Scan("sandbox", reqs, 1)
    IN  IF scan # NoErr THEN Fail(scan) ELSE [opts |-> <<>>, err |-> NoErr]

generateSandboxQoSResourceSpecOptsServer(reqs) ==
    LET scan == Scan("sandbox-server", reqs, 1)
    IN  IF scan # NoErr THEN Fail(scan) ELSE [opts |-> <<>>, err |-> NoErr]

generateSandboxQoSResourceSpecOptsBase(reqs) ==
    LET scan == Scan("sandbox-base", reqs, 1)
    IN  IF scan # NoErr THEN Fail(scan) ELSE [opts |-> <<>>, err |-> NoErr]

(***************************************************************************)
(* The network catalog: parsing, rebuild, lookup and advertisement.        *)
(***************************************************************************)
\* raw configuration texts (Config.Source) a network can carry
SrcSyntaxError == "{\"name\":"
SrcTypeError == "{\"name\":\"n\",\"qos\":[]}"
SrcNoQos == "{\"name\":\"n\"}"
SrcGold == "{\"name\":\"n\",\"qos\":{\"gold\":{\"Capacity\":2,\"BandWidth\":{\"IngressRate\":10}}}}"
SrcGoldSilver == "{\"qos\":{\"gold\":{\"Capacity\":4,\"BandWidth\":{\"IngressRate\":20}},\"silver\":{\"Capacity\":5}}}"
SrcBronze == "{\"qos\":{\"bronze\":{\"Capacity\":1,\"BandWidth\":{\"IngressRate\":5}}}}"

Sources == {SrcSyntaxError, SrcTypeError, SrcNoQos, SrcGold, SrcGoldSilver, SrcBronze}

\* type CniQoSClass struct { Capacity uint64; BandWidth *cni.BandWidth }
CniQoSClass(capacity, bandwidth) == [Capacity |-> capacity, BandWidth |-> bandwidth]
BandWidth(ingressRate) == [IngressRate |-> ingressRate]
\* the nil *cni.BandWidth
NilBandWidth == [nil |-> TRUE]

\* json.Unmarshal([]byte(rawConf), &tmp): tmp.Qos and the error
Unmarshal(rawConf) ==
    CASE rawConf = SrcSyntaxError -> [Qos |-> EmptyMap, err |-> [kind |-> "SyntaxError"]]
      [] rawConf = SrcTypeError -> [Qos |-> EmptyMap, err |-> [kind |-> "UnmarshalTypeError"]]
      [] rawConf = SrcNoQos -> [Qos |-> EmptyMap, err |-> NoErr]
      [] rawConf = SrcGold ->
            [Qos |-> [c \in {"gold"} |-> CniQoSClass(2, BandWidth(10))], err |-> NoErr]
      [] rawConf = SrcGoldSilver ->
            [Qos |-> [c \in {"gold", "silver"} |->
                        IF c = "gold" THEN CniQoSClass(4, BandWidth(20))
                                      ELSE CniQoSClass(5, NilBandWidth)],
             err |-> NoErr]
      [] rawConf = SrcBronze ->
            [Qos |-> [c \in {"bronze"} |-> CniQoSClass(1, BandWidth(5))], err |-> NoErr]

\* a netplugin is NilPlugin or [Networks |-> <<[Source |-> text], ...>>]
NilPlugin == [nil |-> TRUE]
getCniQoSResources(plugin) ==
    IF plugin = NilPlugin
        THEN [qos |-> EmptyMap, err |-> [kind |-> "NilPlugin"]]
    ELSE IF Len(plugin.Networks) < 2
        THEN [qos |-> EmptyMap, err |-> [kind |-> "NoNetworksConfigured"]]
    ELSE LET u == Unmarshal(plugin.Networks[2].Source)
         IN  IF u.err # NoErr
                THEN [qos |-> EmptyMap, err |-> [kind |-> "FailedToParse", cause |-> u.err]]
                ELSE [qos |-> u.Qos, err |-> NoErr]

\* updateCniQoSResources that assigns the result before it tests the error
updateCniQoSResources_AssignFirst(plugin, current) ==
    LET r == getCniQoSResources(plugin)
    IN  [catalog |-> r.qos, err |-> r.err]

\* updateCniQoSResources: the new value of cniQoSResource and the error
updateCniQoSResources(plugin, current) ==
    LET r == getCniQoSResources(plugin)
    IN  IF r.err # NoErr THEN [catalog |-> current, err |-> r.err]
                         ELSE [catalog |-> r.qos, err |-> NoErr]

\* cni.WithCapabilityBandWidth(*caps.BandWidth)
WithCapabilityBandWidth(bw) == [opt |-> "WithCapabilityBandWidth", bandwidth |-> bw]

\* the index of the first request naming name, 0 when there is none
RECURSIVE FirstIndex(_, _, _)
FirstIndex(reqs, name, i) ==
    IF i > Len(reqs) THEN 0
    ELSE IF reqs[i].Name = name THEN i
    ELSE FirstIndex(reqs, name, i + 1)

\* generateCniQoSResourceOpts that passes over a class the catalog lacks
generateCniQoSResourceOpts_SkipUnknown(reqs, catalog) ==
    LET i == FirstIndex(reqs, QoSResourceNet, 1)
    IN  IF i = 0 \/ reqs[i].Class \notin DOMAIN catalog
            THEN [opts |-> <<>>, err |-> NoErr]
        ELSE IF catalog[reqs[i].Class].BandWidth # NilBandWidth
            THEN [opts |-> <<WithCapabilityBandWidth(catalog[reqs[i].Class].BandWidth)>>,
                  err |-> NoErr]
        ELSE [opts |-> <<>>, err |-> NoErr]

\* generateCniQoSResourceOpts, catalog being cniQoSResource as it reads it
generateCniQoSResourceOpts(reqs, catalog) ==
    LET i == FirstIndex(reqs, QoSResourceNet, 1)
    IN  IF i = 0 THEN [opts |-> <<>>, err |-> NoErr]
        ELSE IF reqs[i].Class \notin DOMAIN catalog
            THEN Fail(ErrUnknownClass(QoSResourceNet, reqs[i].Class))
        ELSE IF catalog[reqs[i].Class].BandWidth # NilBandWidth
            THEN [opts |-> <<WithCapabilityBandWidth(catalog[reqs[i].Class].BandWidth)>>,
                  err |-> NoErr]
        ELSE [opts |-> <<>>, err |-> NoErr]

\* GetPodQoSResourcesInfo.  It reads cniQoSResource for the len() > 0 test
\* (lenRead) and again for the range loop (rangeRead).  Go ranges over a
\* map in no fixed order: Classes of "net" is the set of its entries.
GetPodQoSResourcesInfo(lenRead, rangeRead) ==
    (IF DOMAIN lenRead # {}
        THEN << [Name |-> QoSResourceNet, Mutable |-> FALSE,
                 Classes |-> {[Name |-> n, Capacity |-> rangeRead[n].Capacity] :
                                n \in DOMAIN rangeRead}] >>
        ELSE << >>)
    \o dummyPodQoSResourcesInfo

(***************************************************************************)
(* Inputs.                                                                 *)
(***************************************************************************)
RequestNames == {QoSResourceRdt, QoSResourceBlockio, QoSResourceNet, "dummy-2", "nosuch"}
PodRequestNames == {QoSResourceRdt, QoSResourceNet, "podres-1", "nosuch"}
ClassNames == {"", "gold", "bogus"}
PodClassNames == {"", "gold", "qos-a", "bogus"}

RECURSIVE SeqsUpTo(_, _)
SeqsUpTo(S, n) ==
    IF n = 0 THEN {<<>>}
    ELSE LET shorter == SeqsUpTo(S, n - 1)
         IN  shorter \cup {Append(s, x) : s \in {t \in shorter : Len(t) = n - 1}, x \in S}

ContainerConfigs == SeqsUpTo([Name : RequestNames, Class : ClassNames], MaxReqs)
PodConfigs == SeqsUpTo([Name : PodRequestNames, Class : PodClassNames], MaxReqs)
\* "silver" is a class of RDT and none of block-I/O
AnnotationValues == {AnnotationAbsent, AnnotationInvalid, "silver"}
Annotations == [rdt : AnnotationValues, blockio : AnnotationValues]
NoAnnotations == [rdt |-> AnnotationAbsent, blockio |-> AnnotationAbsent]
Flags == [IgnoreRdtNotEnabledErrors : BOOLEAN, IgnoreBlockIONotEnabledErrors : BOOLEAN]
NoFlags == [IgnoreRdtNotEnabledErrors |-> FALSE, IgnoreBlockIONotEnabledErrors |-> FALSE]
Backends == [rdt : BOOLEAN, blockio : BOOLEAN]
AllEnabled == [rdt |-> TRUE, blockio |-> TRUE]

\* request lists naming RDT, block-I/O and "net" once for each class of cs,
\* each in the order of cs: the same duplicates for every resolver
Requests(name, cs) == [i \in 1..Len(cs) |-> [Name |-> name, Class |-> cs[i]]]
Repeated(cs) ==
    Requests(QoSResourceRdt, cs) \o Requests(QoSResourceBlockio, cs)
        \o Requests(QoSResourceNet, cs)
ClassSeqs == SeqsUpTo(ClassNames, MaxReqs)

\* a single "net" request, or none: the configs the catalog is probed with
NetConfigs == {<<>>} \cup {<<[Name |-> QoSResourceNet, Class |-> c]>> : c \in PodClassNames}

Plugins == {NilPlugin} \cup {[Networks |-> n] : n \in SeqsUpTo([Source : Sources], MaxNetworks)}

\* the maps getCniQoSResources can return, and the nil map of a fresh process
Catalogs == {EmptyMap} \cup {Unmarshal(src).Qos : src \in {t \in Sources : Unmarshal(t).err = NoErr}}

\* the texts json.Unmarshal rejects
Unparsable == {SrcSyntaxError, SrcTypeError}

\* a rebuild from plugin fails: nil plugin, fewer than two networks, or
\* the second network's text does not parse
RebuildFails(plugin) ==
    \/ plugin = NilPlugin
    \/ Len(plugin.Networks) < 2
    \/ plugin.Networks[2].Source \in Unparsable

\* no draft drawn up yet, no reply received yet
NoDraft == [none |-> TRUE]
NoReply == [none |-> TRUE]

(***************************************************************************)
(* Spec: one call of a generator.  op is the call to come and flags the    *)
(* service's configuration; the call draws its arguments and what the      *)
(* back-ends answer.                                                       *)
(* The container generators do not read cniQoSResource and are called with *)
(* the catalog of a fresh process; the base variant, whose backend         *)
(* handling is that of the container generator, is called without          *)
(* annotations.                                                            *)
(***************************************************************************)
Init ==
    /\ op \in {"container", "container-base", "sandbox", "sandbox-server",
               "sandbox-base", "cni", "resolve"}
    /\ config = <<>>
    /\ annotations = NoAnnotations
    /\ flags \in IF op \in {"container", "container-base"} THEN Flags ELSE {NoFlags}
    /\ backend = AllEnabled
    /\ cniQoSResource \in IF op \in {"container", "container-base"} THEN {EmptyMap}
                          ELSE Catalogs
    /\ netplugin = NilPlugin
    /\ ret = Pending
    /\ podInfoLen = EmptyMap
    /\ lastRebuilt = cniQoSResource
    /\ seen = {}
    /\ draft = NoDraft
    /\ reply = NoReply
    /\ policy = "abort"
    /\ pc = "idle"
    /\ observed = AllEnabled
    /\ specOptsNow = <<>>

GenerateContainer ==
    /\ op = "container"
    /\ ret = Pending
    /\ \E c \in ContainerConfigs, a \in Annotations, b \in Backends :
        /\ config' = c
        /\ annotations' = a
        /\ backend' = b
        /\ ret' = generateContainerQoSResourceSpecOpts(c, a, flags, b)
    /\ UNCHANGED <<negotiationVars, stepVars>>
    /\ UNCHANGED <<op, flags, cniQoSResource, netplugin, podInfoLen, lastRebuilt, seen>>

GenerateContainerBase ==
    /\ op = "container-base"
    /\ ret = Pending
    /\ \E c \in ContainerConfigs, b \in Backends :
        /\ config' = c
        /\ backend' = b
        /\ ret' = generateContainerQoSResourceSpecOptsBase(c, annotations, flags, b)
    /\ UNCHANGED <<negotiationVars, stepVars>>
    /\ UNCHANGED <<op, annotations, flags, cniQoSResource, netplugin, podInfoLen,
                   lastRebuilt, seen>>

GenerateSandbox ==
    /\ op \in {"sandbox", "sandbox-server", "sandbox-base"}
    /\ ret = Pending
    /\ \E c \in PodConfigs :
        /\ config' = c
        /\ ret' = CASE op = "sandbox" -> generateSandboxQoSResourceSpecOpts(c)
                    [] op = "sandbox-server" -> generateSandboxQoSResourceSpecOptsServer(c)
                    [] op = "sandbox-base" -> generateSandboxQoSResourceSpecOptsBase(c)
    /\ UNCHANGED <<negotiationVars, stepVars>>
    /\ UNCHANGED <<op, annotations, flags, backend, cniQoSResource, netplugin,
                   podInfoLen, lastRebuilt, seen>>

GenerateCni ==
    /\ op = "cni"
    /\ ret = Pending
    /\ \E c \in PodConfigs :
        /\ config' = c
        /\ ret' = generateCniQoSResourceOpts(c, cniQoSResource)
    /\ UNCHANGED <<negotiationVars, stepVars>>
    /\ UNCHANGED <<op, annotations, flags, backend, cniQoSResource, netplugin,
                   podInfoLen, lastRebuilt, seen>>

\* the three resolvers, each applied to the same request list
ResolveAll ==
    /\ op = "resolve"
    /\ ret = Pending
    /\ \E cs \in ClassSeqs :
        LET c == Repeated(cs)
        IN  /\ config' = c
            /\ ret' = [rdt |-> getContainerRdtClass(c, annotations.rdt, backend.rdt),
                       blockio |-> getContainerBlockioClass(c, annotations.blockio,
                                                            backend.blockio),
                       net |-> generateCniQoSResourceOpts(c, cniQoSResource)]
    /\ UNCHANGED <<negotiationVars, stepVars>>
    /\ UNCHANGED <<op, annotations, flags, backend, cniQoSResource, netplugin,
                   podInfoLen, lastRebuilt, seen>>

Next ==
    \/ GenerateContainer
    \/ GenerateContainerBase
    \/ GenerateSandbox
    \/ GenerateCni
    \/ ResolveAll

Spec == Init /\ [][Next]_vars

(***************************************************************************)
(* SpecCatalog: rebuilds of the network catalog, one after another, with   *)
(* lookups and advertisements between them.                                *)
(***************************************************************************)
InitCatalog ==
    /\ op = "start"
    /\ config = <<>>
    /\ annotations = NoAnnotations
    /\ flags = NoFlags
    /\ backend = AllEnabled
    /\ cniQoSResource = EmptyMap
    /\ netplugin = NilPlugin
    /\ ret = Pending
    /\ podInfoLen = EmptyMap
    /\ lastRebuilt = EmptyMap
    /\ seen = {}
    /\ draft = NoDraft
    /\ reply = NoReply
    /\ policy = "abort"
    /\ pc = "idle"
    /\ observed = AllEnabled
    /\ specOptsNow = <<>>

UpdateCni(plugin) ==
    LET r == updateCniQoSResources(plugin, cniQoSResource)
    IN  /\ op' = "update"
        /\ netplugin' = plugin
        /\ cniQoSResource' = r.catalog
        /\ ret' = [err |-> r.err]
        /\ lastRebuilt' = IF RebuildFails(plugin) THEN lastRebuilt
                          ELSE Unmarshal(plugin.Networks[2].Source).Qos
        /\ UNCHANGED <<negotiationVars, stepVars>>
        /\ UNCHANGED <<config, annotations, flags, backend, podInfoLen, seen>>

Update == \E plugin \in Plugins : UpdateCni(plugin)

LookupCni ==
    \E c \in NetConfigs :
        /\ op' = "cni"
        /\ config' = c
        /\ ret' = generateCniQoSResourceOpts(c, cniQoSResource)
        /\ UNCHANGED <<negotiationVars, stepVars>>
        /\ UNCHANGED <<annotations, flags, backend, cniQoSResource, netplugin,
                       podInfoLen, lastRebuilt, seen>>

Advertise ==
    /\ op' = "podinfo"
    /\ ret' = [info |-> GetPodQoSResourcesInfo(cniQoSResource, cniQoSResource)]
    /\ UNCHANGED <<negotiationVars, stepVars>>
    /\ UNCHANGED <<config, annotations, flags, backend, cniQoSResource, netplugin,
                   podInfoLen, lastRebuilt, seen>>

NextCatalog == Update \/ LookupCni \/ Advertise

SpecCatalog == InitCatalog /\ [][NextCatalog]_vars

(***************************************************************************)
(* SpecConc: a reader running while the catalog is rebuilt.  Nothing       *)
(* orders the assignment of updateCniQoSResources with the reads of        *)
(* cniQoSResource: a rebuild can take place between any two reads of a     *)
(* reader.  generateCniQoSResourceOpts reads the variable once;            *)
(* GetPodQoSResourcesInfo reads it for the len() test and again for the    *)
(* range loop, and op = "podinfo-range" is the reader between the two.     *)
(***************************************************************************)
Reading == op = "podinfo-range"

\* updateCniQoSResources called by the configuration reload
RebuildCni(plugin) ==
    LET r == updateCniQoSResources(plugin, cniQoSResource)
    IN  /\ netplugin' = plugin
        /\ cniQoSResource' = r.catalog
        /\ lastRebuilt' = IF RebuildFails(plugin) THEN lastRebuilt
                          ELSE Unmarshal(plugin.Networks[2].Source).Qos
        /\ seen' = IF Reading THEN seen \cup {r.catalog} ELSE seen
        /\ UNCHANGED <<negotiationVars, stepVars>>
        /\ UNCHANGED <<op, config, annotations, flags, backend, ret, podInfoLen>>

Rebuild == \E plugin \in Plugins : RebuildCni(plugin)

\* generateCniQoSResourceOpts: its one read of cniQoSResource
ReadCni ==
    /\ ~Reading
    /\ \E c \in NetConfigs :
        /\ op' = "cni"
        /\ config' = c
        /\ seen' = {cniQoSResource}
        /\ ret' = generateCniQoSResourceOpts(c, cniQoSResource)
        /\ UNCHANGED <<negotiationVars, stepVars>>
        /\ UNCHANGED <<annotations, flags, backend, cniQoSResource, netplugin,
                       podInfoLen, lastRebuilt>>

\* GetPodQoSResourcesInfo: if len(cniQoSResource) > 0
PodInfoTestLen ==
    /\ ~Reading
    /\ podInfoLen' = cniQoSResource
    /\ seen' = {cniQoSResource}
    /\ IF DOMAIN cniQoSResource # {}
          THEN op' = "podinfo-range" /\ ret' = Pending
          ELSE /\ op' = "podinfo"
               /\ ret' = [info |-> GetPodQoSResourcesInfo(cniQoSResource, cniQoSResource)]
    /\ UNCHANGED <<negotiationVars, stepVars>>
    /\ UNCHANGED <<config, annotations, flags, backend, cniQoSResource, netplugin,
                   lastRebuilt>>

\* GetPodQoSResourcesInfo: for n, c := range cniQoSResource, up to the return
PodInfoRange ==
    /\ Reading
    /\ op' = "podinfo"
    /\ ret' = [info |-> GetPodQoSResourcesInfo(podInfoLen, cniQoSResource)]
    /\ UNCHANGED <<negotiationVars, stepVars>>
    /\ UNCHANGED <<config, annotations, flags, backend, cniQoSResource, netplugin,
                   podInfoLen, lastRebuilt, seen>>

NextConc == Rebuild \/ ReadCni \/ PodInfoTestLen \/ PodInfoRange

SpecConc == InitCatalog /\ [][NextConc]_vars

(***************************************************************************)
(* SpecNegotiation: the network negotiation of one sandbox start.  Two     *)
(* states, Drafting -> Negotiated, one call to the policy agent, no retry. *)
(* The catalog is the one in place when the sandbox starts.                *)
(***************************************************************************)
ErrNegotiationRejected(class) == [kind |-> "NegotiationRejected", class |-> class]
ErrAgentCall(cause) == [kind |-> "AgentCallError", cause |-> cause]
NoNetwork == [none |-> TRUE]

\* the class of the first "net" request, "" when the config has none
NetClass(reqs) ==
    LET i == FirstIndex(reqs, QoSResourceNet, 1)
    IN  IF i = 0 THEN "" ELSE reqs[i].Class

\* Draft: the bandwidth setting derived from the resolved "net" class, and
\* the labels of the sandbox (standing for the port mappings, the labels
\* and the DNS settings, which the merge treats alike)
AssembleDraft(reqs, catalog) ==
    LET r == generateCniQoSResourceOpts(reqs, catalog)
    IN  IF r.err # NoErr THEN [draft |-> NoDraft, err |-> r.err]
        ELSE [draft |-> [class |-> NetClass(reqs), bandwidth |-> r.opts,
                         labels |-> "tier-a"],
              err |-> NoErr]

\* adjust(draft) -> Result<AdjustedConfig, AgentError>: what the agent can answer
AgentFailures == {"unreachable", "malformed reply", "timeout"}
ReplyClasses == {"", "gold", "silver", "bogus"}
ReplyBandWidths == {<<>>, <<WithCapabilityBandWidth(BandWidth(5))>>}
Replies ==
    [ok : {TRUE}, class : ReplyClasses, bandwidth : ReplyBandWidths,
     labels : {"tier-a", "tier-b"}]
    \cup [ok : {FALSE}, cause : AgentFailures]

\* Merge: every field the agent may change overwrites the draft's
Merge(d, rep) ==
    [class |-> rep.class, bandwidth |-> rep.bandwidth, labels |-> rep.labels]

\* the merged class, when the agent changed it, is looked up in the catalog
\* as the class of a "net" request is
Revalidate(d, merged, catalog) ==
    IF merged.class = d.class THEN NoErr
    ELSE generateCniQoSResourceOpts(
            <<[Name |-> QoSResourceNet, Class |-> merged.class]>>, catalog).err

\* Merge & re-validate: the network the sandbox is set up with, or the error
MergeAndRevalidate(d, rep, pol, catalog) ==
    IF ~rep.ok
        THEN IF pol = "proceed" THEN [network |-> d, err |-> NoErr]
                                ELSE [network |-> NoNetwork, err |-> ErrAgentCall(rep.cause)]
    ELSE LET merged == Merge(d, rep)
         IN  IF Revalidate(d, merged, catalog) # NoErr
                THEN [network |-> NoNetwork, err |-> ErrNegotiationRejected(merged.class)]
                ELSE [network |-> merged, err |-> NoErr]

InitNegotiation ==
    /\ op = "start"
    /\ config = <<>>
    /\ annotations = NoAnnotations
    /\ flags = NoFlags
    /\ backend = AllEnabled
    /\ cniQoSResource \in Catalogs
    /\ netplugin = NilPlugin
    /\ ret = Pending
    /\ podInfoLen = EmptyMap
    /\ lastRebuilt = cniQoSResource
    /\ seen = {}
    /\ draft = NoDraft
    /\ reply = NoReply
    /\ policy \in {"abort", "proceed"}
    /\ pc = "idle"
    /\ observed = AllEnabled
    /\ specOptsNow = <<>>

\* the sandbox starts: its network is drafted, or the "net" class it asks
\* for is unknown and the setup fails before any negotiation
DraftNetwork ==
    /\ op = "start"
    /\ \E c \in PodConfigs :
        LET d == AssembleDraft(c, cniQoSResource)
        IN  /\ config' = c
            /\ draft' = d.draft
            /\ IF d.err # NoErr
                  THEN op' = "Failed" /\ ret' = [network |-> NoNetwork, err |-> d.err]
                  ELSE op' = "Drafting" /\ ret' = Pending
    /\ UNCHANGED <<annotations, flags, backend, cniQoSResource, netplugin, podInfoLen,
                   lastRebuilt, seen, reply, policy, stepVars>>

\* Propose, then Merge & re-validate: the one round trip
Negotiate ==
    /\ op = "Drafting"
    /\ \E rep \in Replies :
        /\ reply' = rep
        /\ ret' = MergeAndRevalidate(draft, rep, policy, cniQoSResource)
    /\ op' = "Negotiated"
    /\ UNCHANGED <<config, annotations, flags, backend, cniQoSResource, netplugin,
                   podInfoLen, lastRebuilt, seen, draft, policy, stepVars>>

NextNegotiation == DraftNetwork \/ Negotiate

SpecNegotiation == InitNegotiation /\ [][NextNegotiation]_vars

(***************************************************************************)
(* SpecRace: one call of generateContainerQoSResourceSpecOpts taken step   *)
(* by step, while the back-ends are reconfigured.  A resolver reads        *)
(* IsEnabled() when it has a class to verify; the generator reads it again *)
(* when the resolver has returned an error.  Nothing orders the two reads  *)
(* with a change of the backend's status.                                  *)
(***************************************************************************)
\* the configs of the stepped call: RDT and block-I/O requests
RaceConfigs ==
    SeqsUpTo([Name : {QoSResourceRdt, QoSResourceBlockio}, Class : ClassNames], MaxReqs)
RaceAnnotations == [rdt : {AnnotationAbsent, "silver"}, blockio : {AnnotationAbsent, "silver"}]

InitRace ==
    /\ op = "container"
    /\ config = <<>>
    /\ annotations = NoAnnotations
    /\ flags \in Flags
    /\ backend \in Backends
    /\ cniQoSResource = EmptyMap
    /\ netplugin = NilPlugin
    /\ ret = Pending
    /\ podInfoLen = EmptyMap
    /\ lastRebuilt = EmptyMap
    /\ seen = {}
    /\ draft = NoDraft
    /\ reply = NoReply
    /\ policy = "abort"
    /\ pc = "scan"
    /\ observed = backend
    /\ specOptsNow = <<>>

\* the call begins: the request scan, which reads no backend
ScanRequests ==
    /\ pc = "scan"
    /\ \E c \in RaceConfigs, a \in RaceAnnotations :
        LET scan == Scan("container", c, 1)
        IN  /\ config' = c
            /\ annotations' = a
            /\ IF scan # NoErr
                  THEN pc' = "done" /\ ret' = Fail(scan)
                  ELSE pc' = "rdt" /\ ret' = Pending
    /\ UNCHANGED <<op, flags, backend, cniQoSResource, netplugin, podInfoLen,
                   lastRebuilt, seen, negotiationVars, observed, specOptsNow>>

\* c.getContainerRdtClass(config, sandboxConfig) returns; without an error
\* the block is over, with one the generator has rdt.IsEnabled() to read
ResolveRdt ==
    /\ pc = "rdt"
    /\ observed' = [observed EXCEPT !.rdt = backend.rdt]
    /\ IF getContainerRdtClass(config, annotations.rdt, backend.rdt).err = NoErr
          THEN /\ specOptsNow' = HandleRdt(specOptsNow, config, annotations.rdt,
                                          flags.IgnoreRdtNotEnabledErrors,
                                          backend.rdt, backend.rdt).opts
               /\ pc' = "blockio"
          ELSE /\ specOptsNow' = specOptsNow
               /\ pc' = "rdt-err"
    /\ UNCHANGED <<op, config, annotations, flags, backend, cniQoSResource, netplugin,
                   ret, podInfoLen, lastRebuilt, seen, negotiationVars>>

\* if !rdt.IsEnabled() && c.config.ContainerdConfig.IgnoreRdtNotEnabledErrors
CheckRdt ==
    /\ pc = "rdt-err"
    /\ LET r == HandleRdt(specOptsNow, config, annotations.rdt,
                          flags.IgnoreRdtNotEnabledErrors, observed.rdt, backend.rdt)
       IN  IF r.err # NoErr
              THEN pc' = "done" /\ ret' = r /\ specOptsNow' = specOptsNow
              ELSE pc' = "blockio" /\ ret' = ret /\ specOptsNow' = r.opts
    /\ UNCHANGED <<op, config, annotations, flags, backend, cniQoSResource, netplugin,
                   podInfoLen, lastRebuilt, seen, negotiationVars, observed>>

\* c.getContainerBlockioClass(config, sandboxConfig) returns; without an
\* error the call runs to its return
ResolveBlockio ==
    /\ pc = "blockio"
    /\ observed' = [observed EXCEPT !.blockio = backend.blockio]
    /\ IF getContainerBlockioClass(config, annotations.blockio, backend.blockio).err = NoErr
          THEN /\ ret' = HandleBlockIO(specOptsNow, config, annotations.blockio,
                                       flags.IgnoreBlockIONotEnabledErrors,
                                       backend.blockio, backend.blockio)
               /\ pc' = "done"
          ELSE /\ ret' = ret
               /\ pc' = "blockio-err"
    /\ UNCHANGED <<op, config, annotations, flags, backend, cniQoSResource, netplugin,
                   podInfoLen, lastRebuilt, seen, negotiationVars, specOptsNow>>

\* if !blockio.IsEnabled() && c.config.ContainerdConfig.IgnoreBlockIONotEnabledErrors
CheckBlockio ==
    /\ pc = "blockio-err"
    /\ ret' = HandleBlockIO(specOptsNow, config, annotations.blockio,
                            flags.IgnoreBlockIONotEnabledErrors,
                            observed.blockio, backend.blockio)
    /\ pc' = "done"
    /\ UNCHANGED <<op, config, annotations, flags, backend, cniQoSResource, netplugin,
                   podInfoLen, lastRebuilt, seen, negotiationVars, observed, specOptsNow>>

\* a backend is reconfigured while the call runs: what IsEnabled() answers changes
SetEnabled ==
    /\ pc \notin {"scan", "done"}
    /\ \E name \in {QoSResourceRdt, QoSResourceBlockio} :
          backend' = [backend EXCEPT ![name] = ~backend[name]]
    /\ UNCHANGED <<op, config, annotations, flags, cniQoSResource, netplugin, ret,
                   podInfoLen, lastRebuilt, seen, negotiationVars, stepVars>>

NextRace ==
    \/ ScanRequests
    \/ ResolveRdt
    \/ CheckRdt
    \/ ResolveBlockio
    \/ CheckBlockio
    \/ SetEnabled

SpecRace == InitRace /\ [][NextRace]_vars

(***************************************************************************)
(* Vocabulary of the properties.                                           *)
(***************************************************************************)
Returned == ret # Pending
ContainerScope == {"container", "container-base"}
SandboxScope == {"sandbox", "sandbox-server", "sandbox-base"}
ContainerReturned == op \in ContainerScope /\ Returned
SandboxReturned == op \in SandboxScope /\ Returned

\* the resource types a generator handles by itself, and its catalog of
\* generic resource types
BuiltIn(variant) ==
    IF variant \in ContainerScope THEN {QoSResourceRdt, QoSResourceBlockio}
    ELSE IF variant = "sandbox" THEN {QoSResourceNet}
    ELSE {}
CatalogOf(variant) ==
    CASE variant = "container" -> dummyContainerQoSResources
      [] variant \in {"sandbox", "sandbox-server"} -> dummyPodQoSResources
      [] OTHER -> EmptyMap
ScopeTypes(variant) == BuiltIn(variant) \cup DOMAIN CatalogOf(variant)

\* the positions of config whose request names the resource type
Positions(name) == {i \in 1..Len(config) : config[i].Name = name}
Structured(name) == Positions(name) # {}
StructuredClasses(name) == {config[i].Class : i \in Positions(name)}

\* the class asked of a backend: that of the structured request (the last
\* one when several name the backend), else the one the annotations name
RequestedClass(name) ==
    IF Structured(name)
        THEN config[CHOOSE i \in Positions(name) : \A j \in Positions(name) : j <= i].Class
    ELSE IF annotations[name] \in {AnnotationAbsent, AnnotationInvalid} THEN ""
    ELSE annotations[name]

BackendClasses(name) == IF name = QoSResourceRdt THEN RdtClasses ELSE BlockioClasses
IgnoreFlag(name) ==
    IF name = QoSResourceRdt THEN flags.IgnoreRdtNotEnabledErrors
                             ELSE flags.IgnoreBlockIONotEnabledErrors
Mutation(name, cls) == IF name = QoSResourceRdt THEN WithRdt(cls) ELSE WithBlockIO([class |-> cls])
MutationKind(name) == IF name = QoSResourceRdt THEN "WithRdt" ELSE "WithBlockIO"

\* the mutations of a backend in the returned list
MutationsOf(name) == {k \in 1..Len(ret.opts) : ret.opts[k].opt = MutationKind(name)}

\* every request passes the scan: a backend request with a class, or a
\* registered generic type with one of its classes
RequestValid(r) ==
    IF r.Name \in BuiltIn(op) THEN r.Class # ""
    ELSE /\ r.Name \in DOMAIN CatalogOf(op)
         /\ r.Class \in CatalogOf(op)[r.Name]
ScanPasses == \A i \in 1..Len(config) : RequestValid(config[i])

(***************************************************************************)
(* C1: a request with the empty class makes the generator fail with the    *)
(* empty-class error, whatever resource type of the scope it names.  Taken *)
(* on the first request of the config, which no other request precedes.    *)
(***************************************************************************)
C1_EmptyClassAlwaysEmptyClassError ==
    ( /\ op \in {"container", "sandbox"}
      /\ Returned
      /\ Len(config) >= 1
      /\ config[1].Class = ""
      /\ config[1].Name \in ScopeTypes(op) )
    => ret.err = ErrEmptyClass(config[1].Name)

(***************************************************************************)
(* C2: when a structured request names RDT (block-I/O), the resolver's     *)
(* result is the same for every content of the annotations and its class   *)
(* is a structured request's class; a returned mutation of that backend    *)
(* names a structured class.                                               *)
(***************************************************************************)
C2_StructuredRequestBeatsAnnotation ==
    op \in ContainerScope =>
        /\ Structured(QoSResourceRdt) =>
            /\ \A a \in AnnotationValues :
                  getContainerRdtClass(config, a, backend.rdt)
                    = getContainerRdtClass(config, AnnotationAbsent, backend.rdt)
            /\ getContainerRdtClass(config, annotations.rdt, backend.rdt).cls
                  \in StructuredClasses(QoSResourceRdt)
            /\ Returned =>
                  \A k \in MutationsOf(QoSResourceRdt) :
                      ret.opts[k].class \in StructuredClasses(QoSResourceRdt)
        /\ Structured(QoSResourceBlockio) =>
            /\ \A a \in AnnotationValues :
                  getContainerBlockioClass(config, a, backend.blockio)
                    = getContainerBlockioClass(config, AnnotationAbsent, backend.blockio)
            /\ getContainerBlockioClass(config, annotations.blockio, backend.blockio).cls
                  \in StructuredClasses(QoSResourceBlockio)
            /\ Returned =>
                  \A k \in MutationsOf(QoSResourceBlockio) :
                      ret.opts[k].class \in StructuredClasses(QoSResourceBlockio)

\* structured "gold" with annotation "silver" has resolved to "gold", for both backends
C2_Witness ==
    /\ ContainerReturned
    /\ config = <<[Name |-> QoSResourceRdt, Class |-> "gold"],
                  [Name |-> QoSResourceBlockio, Class |-> "gold"]>>
    /\ annotations = [rdt |-> "silver", blockio |-> "silver"]
    /\ ret = [opts |-> <<WithRdt("gold"), WithBlockIO([class |-> "gold"])>>, err |-> NoErr]

(***************************************************************************)
(* C3 as stated: a config with one request, of any resource type, whose    *)
(* class exists and whose backend is enabled yields exactly one mutation   *)
(* naming that class and no error.                                         *)
(***************************************************************************)
ValidClasses(variant, name) ==
    IF name \in {QoSResourceRdt, QoSResourceBlockio} THEN BackendClasses(name)
    ELSE IF name = QoSResourceNet THEN DOMAIN cniQoSResource
    ELSE CatalogOf(variant)[name]

OneValidRequest ==
    /\ op \in ContainerScope \cup SandboxScope
    /\ Returned
    /\ Len(config) = 1
    /\ config[1].Name \in ScopeTypes(op)
    /\ config[1].Class \in ValidClasses(op, config[1].Name)
    /\ annotations = NoAnnotations
    /\ backend = AllEnabled

C3_OneMutationForEveryResourceType ==
    OneValidRequest =>
        /\ ret.err = NoErr
        /\ Len(ret.opts) = 1
        /\ ret.opts[1].class = config[1].Class

(***************************************************************************)
(* C3 amended: one valid request for RDT or block-I/O yields exactly the   *)
(* one mutation of that backend naming the class; one valid request for    *)
(* any other resource type yields no mutation; both without error.  A      *)
(* backend with neither request nor annotation gets no mutation, and a     *)
(* config with no request and no annotation yields the empty list and no   *)
(* error.                                                                  *)
(***************************************************************************)
C3_OneMutationPerBackendRequest ==
    /\ OneValidRequest =>
        /\ ret.err = NoErr
        /\ ret.opts = IF config[1].Name \in {QoSResourceRdt, QoSResourceBlockio}
                        THEN <<Mutation(config[1].Name, config[1].Class)>>
                        ELSE <<>>
    /\ ContainerReturned =>
        \A name \in {QoSResourceRdt, QoSResourceBlockio} :
            /\ (~Structured(name) /\ annotations[name] = AnnotationAbsent)
                  => MutationsOf(name) = {}
            /\ ( /\ ret.err = NoErr
                 /\ backend[name]
                 /\ RequestedClass(name) \in BackendClasses(name) )
                  => /\ Cardinality(MutationsOf(name)) = 1
                     /\ \A k \in MutationsOf(name) : ret.opts[k].class = RequestedClass(name)
    /\ (Returned /\ op \in ContainerScope \cup SandboxScope /\ config = <<>> /\ annotations = NoAnnotations)
        => ret = [opts |-> <<>>, err |-> NoErr]

\* one valid block-I/O request has yielded the one block-I/O mutation
C3_Witness ==
    /\ ContainerReturned
    /\ OneValidRequest
    /\ config = <<[Name |-> QoSResourceBlockio, Class |-> "gold"]>>
    /\ ret = [opts |-> <<WithBlockIO([class |-> "gold"])>>, err |-> NoErr]
    /\ flags = NoFlags

(***************************************************************************)
(* Vocabulary of the backend properties.                                   *)
(***************************************************************************)
OtherBackend(name) == IF name = QoSResourceRdt THEN QoSResourceBlockio ELSE QoSResourceRdt
Idle(name) == ~Structured(name) /\ annotations[name] = AnnotationAbsent
UnknownRequested(name) ==
    RequestedClass(name) # "" /\ RequestedClass(name) \notin BackendClasses(name)
\* the call failed in the handling of the backend
FailedIn(name) == ret.err.kind = "FailedToSetClass" /\ ret.err.name = name
\* the backend's resolver reports an error
ResolverErrs(name) ==
    \/ ~Structured(name) /\ annotations[name] = AnnotationInvalid
    \/ RequestedClass(name) # "" /\ (~backend[name] \/ UnknownRequested(name))

(***************************************************************************)
(* C4 as stated: a non-empty RDT or block-I/O class that the backend's     *)
(* class set lacks makes the call fail with the unknown-class error, for   *)
(* every value of the ignore flags.  Taken on configs that pass the scan   *)
(* and leave the other backend idle.                                       *)
(***************************************************************************)
C4_UnknownClassAlwaysFails ==
    \A name \in {QoSResourceRdt, QoSResourceBlockio} :
        ( /\ ContainerReturned
          /\ ScanPasses
          /\ Idle(OtherBackend(name))
          /\ UnknownRequested(name) )
        => ret.err = ErrFailedToSet(name, ErrInvalidClass(name, RequestedClass(name)))

(***************************************************************************)
(* C4 amended: while the backend is enabled, a non-empty class that its    *)
(* class set lacks makes the call fail, with the unknown-class error once  *)
(* the scan and the handling of RDT before block-I/O have passed, for      *)
(* every value of the ignore flags.  A resolver error is passed over only  *)
(* while the backend is disabled and its ignore flag is set.               *)
(***************************************************************************)
C4_UnknownClassFailsWhileEnabled ==
    ContainerReturned =>
        \A name \in {QoSResourceRdt, QoSResourceBlockio} :
            /\ (backend[name] /\ UnknownRequested(name)) =>
                /\ ret.err # NoErr
                /\ ScanPasses =>
                    \/ ret.err = ErrFailedToSet(name,
                                    ErrInvalidClass(name, RequestedClass(name)))
                    \/ name = QoSResourceBlockio /\ FailedIn(QoSResourceRdt)
            /\ (ret.err = NoErr /\ ResolverErrs(name)) =>
                ~backend[name] /\ IgnoreFlag(name)

\* an unknown RDT class has failed the call although the ignore flag is set
C4_Witness ==
    /\ ContainerReturned
    /\ config = <<[Name |-> QoSResourceRdt, Class |-> "bogus"]>>
    /\ backend.rdt
    /\ flags.IgnoreRdtNotEnabledErrors
    /\ ret.err = ErrFailedToSet(QoSResourceRdt, ErrInvalidClass(QoSResourceRdt, "bogus"))

(***************************************************************************)
(* C5: a disabled backend asked for a non-empty class.  With its ignore    *)
(* flag unset the call fails, with the disabled-backend error once the     *)
(* scan and the handling of RDT before block-I/O have passed.  With the    *)
(* flag set the backend gets no mutation and causes no error, and the      *)
(* other backend is still resolved: its mutation is returned when its      *)
(* class is valid, and its error when it fails.                            *)
(***************************************************************************)
C5_DisabledBackendFailsOrIsSkipped ==
    ContainerReturned =>
        \A name \in {QoSResourceRdt, QoSResourceBlockio} :
            (RequestedClass(name) # "" /\ ~backend[name]) =>
                /\ ~IgnoreFlag(name) =>
                    /\ ret.err # NoErr
                    /\ ScanPasses =>
                        \/ ret.err = ErrFailedToSet(name,
                                        ErrDisabled(name, RequestedClass(name)))
                        \/ name = QoSResourceBlockio /\ FailedIn(QoSResourceRdt)
                /\ IgnoreFlag(name) =>
                    /\ ret.err # NoErr => ~FailedIn(name)
                    /\ MutationsOf(name) = {}
                    /\ ScanPasses =>
                        LET other == OtherBackend(name)
                        IN  /\ (backend[other] /\ RequestedClass(other) \in BackendClasses(other))
                                => ret = [opts |-> <<Mutation(other, RequestedClass(other))>>,
                                          err |-> NoErr]
                            /\ (backend[other] /\ UnknownRequested(other))
                                => FailedIn(other)
                            /\ Idle(other) => ret = [opts |-> <<>>, err |-> NoErr]

\* RDT is disabled and ignored, and the block-I/O mutation is returned
C5_Witness ==
    /\ ContainerReturned
    /\ config = <<[Name |-> QoSResourceRdt, Class |-> "gold"],
                  [Name |-> QoSResourceBlockio, Class |-> "gold"]>>
    /\ ~backend.rdt /\ backend.blockio
    /\ flags.IgnoreRdtNotEnabledErrors
    /\ ret = [opts |-> <<WithBlockIO([class |-> "gold"])>>, err |-> NoErr]

(***************************************************************************)
(* C6: generic resource types (neither RDT, block-I/O nor net).  A         *)
(* generator succeeds only if every generic request names a type of the    *)
(* scope's catalog and a class of that type.  The first request of the     *)
(* scan that is not valid decides the error: unknown-resource-type when it *)
(* is generic and names an absent type, unknown-class when it is generic   *)
(* and names a present type with an absent non-empty class.                *)
(***************************************************************************)
Generic(r) == r.Name \notin {QoSResourceRdt, QoSResourceBlockio, QoSResourceNet}
Offenders == {i \in 1..Len(config) : ~RequestValid(config[i])}
FirstOffender == CHOOSE i \in Offenders : \A j \in Offenders : i <= j

C6_GenericRequestsNeedTypeAndClass ==
    (op \in ContainerScope \cup SandboxScope /\ Returned) =>
        /\ ret.err = NoErr =>
            \A i \in 1..Len(config) :
                Generic(config[i]) =>
                    /\ config[i].Name \in DOMAIN CatalogOf(op)
                    /\ config[i].Class \in CatalogOf(op)[config[i].Name]
        /\ (Offenders # {} /\ Generic(config[FirstOffender])) =>
            LET r == config[FirstOffender]
            IN  /\ r.Name \notin DOMAIN CatalogOf(op) => ret = Fail(ErrUnknownType(r.Name))
                /\ (r.Name \in DOMAIN CatalogOf(op) /\ r.Class # "")
                      => ret = Fail(ErrUnknownClass(r.Name, r.Class))

\* a valid request, then a present type with an absent class, then an absent
\* type: the error is the second request's
C6_Witness ==
    /\ op = "container"
    /\ Returned
    /\ Len(config) >= 2
    /\ config[1] = [Name |-> QoSResourceRdt, Class |-> "gold"]
    /\ config[2] = [Name |-> "dummy-2", Class |-> "bogus"]
    /\ ret = Fail(ErrUnknownClass("dummy-2", "bogus"))

(***************************************************************************)
(* C7: "net" is resolved by catalog lookup alone.  generateCniQoSResource- *)
(* Opts fails with the unknown-class error and returns no option when the  *)
(* requested net class is no key of the catalog; otherwise it returns the  *)
(* bandwidth option of that class's entry, or none when the entry has no   *)
(* bandwidth.  No generator returns a spec mutation for "net".             *)
(***************************************************************************)
C7_NetResolvedByCatalogLookup ==
    /\ (op = "cni" /\ Returned) =>
        IF ~Structured(QoSResourceNet) THEN ret = [opts |-> <<>>, err |-> NoErr]
        ELSE LET cls == config[CHOOSE i \in Positions(QoSResourceNet) :
                                \A j \in Positions(QoSResourceNet) : i <= j].Class
             IN  IF cls \notin DOMAIN cniQoSResource
                    THEN ret = [opts |-> <<>>, err |-> ErrUnknownClass(QoSResourceNet, cls)]
                    ELSE /\ ret.err = NoErr
                         /\ Len(ret.opts) <= 1
                         /\ Len(ret.opts) = 1 <=> cniQoSResource[cls].BandWidth # NilBandWidth
                         /\ \A k \in 1..Len(ret.opts) :
                               ret.opts[k] = WithCapabilityBandWidth(cniQoSResource[cls].BandWidth)
    /\ SandboxReturned => ret.opts = <<>>
    /\ ContainerReturned =>
        /\ \A k \in 1..Len(ret.opts) : ret.opts[k].opt \in {"WithRdt", "WithBlockIO"}
        /\ Structured(QoSResourceNet) => ret.err # NoErr

\* a net class the non-empty catalog lacks has failed the lookup
C7_Witness ==
    /\ op = "cni"
    /\ config = <<[Name |-> QoSResourceNet, Class |-> "gold"]>>
    /\ DOMAIN cniQoSResource = {"bronze"}
    /\ ret = [opts |-> <<>>, err |-> ErrUnknownClass(QoSResourceNet, "gold")]

(***************************************************************************)
(* C8 as stated: the mutations appear in the order of the requests that    *)
(* produced them.  Taken on configs with one RDT and one block-I/O         *)
(* request, both of which produced a mutation.                             *)
(***************************************************************************)
OneOfEach ==
    /\ ContainerReturned
    /\ ret.err = NoErr
    /\ Cardinality(Positions(QoSResourceRdt)) = 1
    /\ Cardinality(Positions(QoSResourceBlockio)) = 1
    /\ Cardinality(MutationsOf(QoSResourceRdt)) = 1
    /\ Cardinality(MutationsOf(QoSResourceBlockio)) = 1

C8_MutationsInRequestOrder ==
    OneOfEach =>
        \A i \in Positions(QoSResourceRdt), j \in Positions(QoSResourceBlockio),
           k \in MutationsOf(QoSResourceRdt), l \in MutationsOf(QoSResourceBlockio) :
            i < j <=> k < l

(***************************************************************************)
(* C8 amended: the mutations appear in a fixed order, whatever the order   *)
(* of the requests: at most one RDT mutation, at most one block-I/O        *)
(* mutation, and the RDT mutation before the block-I/O mutation.           *)
(***************************************************************************)
C8_RdtMutationBeforeBlockIO ==
    ContainerReturned =>
        /\ Cardinality(MutationsOf(QoSResourceRdt)) <= 1
        /\ Cardinality(MutationsOf(QoSResourceBlockio)) <= 1
        /\ \A k \in MutationsOf(QoSResourceRdt), l \in MutationsOf(QoSResourceBlockio) : k < l

\* requests [blockio, rdt] have produced the mutations [RDT, block-I/O]
C8_Witness ==
    /\ ContainerReturned
    /\ config = <<[Name |-> QoSResourceBlockio, Class |-> "gold"],
                  [Name |-> QoSResourceRdt, Class |-> "gold"]>>
    /\ ret = [opts |-> <<WithRdt("gold"), WithBlockIO([class |-> "gold"])>>, err |-> NoErr]

(***************************************************************************)
(* C9: a rebuild that fails (nil plugin, fewer than two networks, a second *)
(* network whose text does not parse) returns an error and leaves the      *)
(* catalog as it was: after any sequence of rebuilds the catalog is the    *)
(* map built by the last rebuild that succeeded, and the lookup and the    *)
(* advertisement answer from it.                                           *)
(***************************************************************************)
C9_FailedRebuildKeepsCatalog ==
    /\ cniQoSResource = lastRebuilt
    /\ op = "update" => (ret.err # NoErr <=> RebuildFails(netplugin))
    /\ op = "cni" => ret = generateCniQoSResourceOpts(config, lastRebuilt)
    /\ op = "podinfo" => ret.info = GetPodQoSResourcesInfo(lastRebuilt, lastRebuilt)

\* a rebuild has failed on an unparsable second network and the catalog of
\* an earlier rebuild is still in place
C9_Witness ==
    /\ op = "update"
    /\ netplugin # NilPlugin
    /\ Len(netplugin.Networks) = 2
    /\ netplugin.Networks[2].Source = SrcSyntaxError
    /\ ret.err # NoErr
    /\ DOMAIN cniQoSResource = {"gold", "silver"}

(***************************************************************************)
(* C10: a reader running concurrently with rebuilds returns what it would  *)
(* compute from one of the catalogs in place during its call, never from a *)
(* mix of two: GetPodQoSResourcesInfo advertises the "net" entry of one    *)
(* catalog, generateCniQoSResourceOpts the option of one catalog.          *)
(***************************************************************************)
C10_ReadersSeeOneCatalog ==
    /\ op = "podinfo" => \E c \in seen : ret.info = GetPodQoSResourcesInfo(c, c)
    /\ op = "cni" => \E c \in seen : ret = generateCniQoSResourceOpts(config, c)

(***************************************************************************)
(* C11: in the negotiation of a sandbox's network, a successful reply of   *)
(* the agent that names a class the catalog lacks ends in the negotiation  *)
(* failure and no network, under either policy for agent failures: a       *)
(* sandbox that proceeds does so with a class of the catalog, or with no   *)
(* class when neither its config nor the agent named one.                  *)
(***************************************************************************)
UnknownReply ==
    /\ reply # NoReply
    /\ reply.ok
    /\ reply.class # ""
    /\ reply.class \notin DOMAIN cniQoSResource

FirstOf(name) == CHOOSE i \in Positions(name) : \A j \in Positions(name) : i <= j
LastOf(name) == CHOOSE i \in Positions(name) : \A j \in Positions(name) : j <= i
\* what the resolver of a resource type answers to the one request r
ResolverOn(name, r) ==
    CASE name = QoSResourceRdt -> getContainerRdtClass(<<r>>, annotations.rdt, backend.rdt)
      [] name = QoSResourceBlockio ->
            getContainerBlockioClass(<<r>>, annotations.blockio, backend.blockio)
      [] name = QoSResourceNet -> generateCniQoSResourceOpts(<<r>>, cniQoSResource)
\* the resolver of the resource type answered as if the occurrence at
\* position i were the only request naming it
Selected(name, i) == ret[name] = ResolverOn(name, config[i])
Resolved == op = "resolve" /\ Returned /\ config # <<>>

(***************************************************************************)
(* C12 as stated: among several requests naming the same resource type     *)
(* the three resolvers select the occurrence of one fixed position, all    *)
(* the first or all the last, and answer for its class alone.              *)
(***************************************************************************)
C12_AllResolversSelectSameOccurrence ==
    Resolved =>
        \/ \A name \in {QoSResourceRdt, QoSResourceBlockio, QoSResourceNet} :
                Selected(name, FirstOf(name))
        \/ \A name \in {QoSResourceRdt, QoSResourceBlockio, QoSResourceNet} :
                Selected(name, LastOf(name))

(***************************************************************************)
(* C12 amended: the RDT and the block-I/O resolver select the last         *)
(* occurrence and the net resolver the first; each answers as if the       *)
(* selected occurrence were the only request naming its resource type, so  *)
(* no class of another occurrence is checked against the catalog.          *)
(***************************************************************************)
C12_BackendsSelectLastNetSelectsFirst ==
    Resolved =>
        /\ Selected(QoSResourceRdt, LastOf(QoSResourceRdt))
        /\ Selected(QoSResourceBlockio, LastOf(QoSResourceBlockio))
        /\ Selected(QoSResourceNet, FirstOf(QoSResourceNet))

\* of the classes "gold" then "bogus", RDT and block-I/O have answered for
\* "bogus" and net for "gold"
C12_Witness ==
    /\ Resolved
    /\ config = Repeated(<<"gold", "bogus">>)
    /\ ret.rdt.err = ErrInvalidClass(QoSResourceRdt, "bogus")
    /\ ret.blockio.err = ErrInvalidClass(QoSResourceBlockio, "bogus")
    /\ ret.net = [opts |-> <<WithCapabilityBandWidth(BandWidth(10))>>, err |-> NoErr]

(***************************************************************************)
(* Vocabulary of the stepped call.                                         *)
(***************************************************************************)
\* what the backend's resolver returned, from the status it observed
ResolverResult(name) ==
    ResolveClass(name, config, annotations[name], observed[name], BackendClasses(name))
\* the call is over and went past the backend's block although its resolver
\* had returned an error
Swallowed(name) ==
    /\ pc = "done"
    /\ ScanPasses
    /\ ResolverResult(name).err # NoErr
    /\ IF name = QoSResourceRdt THEN ~FailedIn(QoSResourceRdt) ELSE ret.err = NoErr

(***************************************************************************)
(* C13: the generator ignores a resolver error by the status the resolver  *)
(* observed.  Whenever the status of a backend changes between the         *)
(* resolver's IsEnabled() and the generator's, an error passed over is the *)
(* disabled-backend error: no unknown-class error is swallowed, and no     *)
(* disabled-backend error fails the call while the ignore flag is set.     *)
(***************************************************************************)
C13_IgnoreDecidedByResolverObservation ==
    (pc = "done" /\ ScanPasses) =>
        \A name \in {QoSResourceRdt, QoSResourceBlockio} :
            /\ Swallowed(name) => ResolverResult(name).err.kind = "DisabledBackend"
            /\ (FailedIn(name) /\ ret.err.cause.kind = "DisabledBackend")
                  => ~IgnoreFlag(name)

====
